---- MODULE Spec2Model ----
(***************************************************************************)
(* Model of the developer-activity portfolio section:                      *)
(*   - the DeveloperActivitySection client component (fetch state cells,   *)
(*     range selection, tooltip),                                          *)
(*   - the /api/github and /api/hackatime route handlers,                  *)
(*   - the pure derivation helpers (levels, streaks, month labels,         *)
(*     language bars).                                                     *)
(***************************************************************************)
EXTENDS Integers, Sequences, FiniteSets, TLC

VARIABLES
    \* ---- DeveloperActivitySection state cells (useState) ----
    githubData,          \* <<>> (null) or <<calendar>>
    hackatimeData,       \* <<>> (null) or <<stats>>
    loadingGithub,
    loadingHackatime,
    errorGithub,
    errorHackatime,
    activeRange,
    tooltip,             \* <<>> (null) or <<[text, cell]>>
    \* ---- component environment: effects and promises in flight ----
    mounted,             \* TRUE once the mount effects have run
    githubFetches,       \* fetch("/api/github") calls, each "pending" or "settled"
    hackatimeFetches,    \* fetch("/api/hackatime?range=") calls: [range, status]
    \* ---- observation of the component (history) ----
    selections,          \* number of handleRangeChange calls
    differing,           \* ... of which range # activeRange at the call
    lastGithub,          \* <<>> or <<[id, outcome, data]>>: last settled calendar fetch
    lastHackatime,       \* <<>> or <<[id, outcome, data]>>: last settled stats fetch
    overlapped,          \* a time-tracking fetch started while another was pending
    \* ---- route handlers (one invocation of each at a time) ----
    env,                 \* process.env: GITHUB_TOKEN, HACKATIME_USERNAME, HACKATIME_API_KEY
    ghPc,                \* "idle" | "awaiting" | "done"
    ghCalls,             \* upstream fetch calls made by the current invocation
    ghUpstream,          \* <<>> or <<what the upstream call produced>>
    ghResponses,         \* responses returned by the current invocation
    htPc,
    htCalls,
    htRequest,           \* <<>> or <<[range, start_date, end_date, auth]>>: the upstream request
    htUpstream,
    htResponses,
    \* ---- derivation helpers under test ----
    op,                  \* which helper the input is for
    input,
    output               \* <<>> until the helper has been applied, then <<result>>

compVars == <<githubData, hackatimeData, loadingGithub, loadingHackatime,
              errorGithub, errorHackatime, activeRange, tooltip, mounted,
              githubFetches, hackatimeFetches, selections, differing,
              lastGithub, lastHackatime, overlapped>>

adapterVars == <<env, ghPc, ghCalls, ghUpstream, ghResponses,
                 htPc, htCalls, htRequest, htUpstream, htResponses>>

pureVars == <<op, input, output>>

vars == <<compVars, adapterVars, pureVars>>

\* ------------------------------------------------------------------ bounds

MaxSelections == 2   \* handleRangeChange calls in one run of the component
MaxCount == 12       \* largest contribution count given to getGitHubLevel
MaxDays == 4         \* days in a calendar given to computeGitHubStreaks
MaxDayCount == 2     \* largest contribution count of such a day
MaxWeeks == 4        \* weeks in a calendar given to getMonthLabels
MaxMonth == 3        \* months (1..MaxMonth) the first days of those weeks fall in
MaxLangs == 3        \* entries in a language list given to the bar chart

\* ------------------------------------------------------------ input values

Null == <<>>

\* RANGE_OPTIONS[*].value
RANGE_OPTIONS == {"last_7_days", "last_30_days", "last_6_months", "last_year"}

\* GitHubContributionDay: the count and the ISO date (year, month 1..12, day).
Date(y, m, d) == [year |-> y, month |-> m, day |-> d]
Day(c, date) == [contributionCount |-> c, date |-> date]

\* Calendars the /api/github response body can hold.
GitHubPayloads ==
    { [totalContributions |-> 1,
       weeks |-> << <<Day(1, Date(2024, 1, 7))>> >>],
      [totalContributions |-> 4,
       weeks |-> << <<Day(0, Date(2024, 1, 7)), Day(4, Date(2024, 1, 8))>> >>] }

\* HackatimeLanguage
Lang(n, s, p) == [name |-> n, total_seconds |-> s, percent |-> p]

\* Statistics the /api/hackatime response body can hold.
HackatimePayloads ==
    { [total_seconds |-> 500, languages |-> <<Lang("Go", 500, 100)>>],
      [total_seconds |-> 0, languages |-> <<>>] }

\* How a client-side fetch chain can end: res.ok and a parsed body, a non-ok
\* response, a rejected fetch, or a body that res.json() rejects.
FetchOutcomes == {"ok", "notOk", "rejected", "badJson"}

Settled(id, outcome, data) ==
    [id |-> id, outcome |-> outcome,
     data |-> (IF outcome = "ok" THEN <<data>> ELSE <<>>)]

\* ------------------------------------------------------------- component

PendingHackatime ==
    {i \in DOMAIN hackatimeFetches : hackatimeFetches[i].status = "pending"}
PendingGithub == {i \in DOMAIN githubFetches : githubFetches[i] = "pending"}

\* The useState initial values; no effect has run yet.
InitComponent ==
    /\ githubData = Null
    /\ hackatimeData = Null
    /\ loadingGithub = TRUE
    /\ loadingHackatime = TRUE
    /\ errorGithub = FALSE
    /\ errorHackatime = FALSE
    /\ activeRange = "last_year"
    /\ tooltip = Null
    /\ mounted = FALSE
    /\ githubFetches = <<>>
    /\ hackatimeFetches = <<>>
    /\ selections = 0
    /\ differing = 0
    /\ lastGithub = Null
    /\ lastHackatime = Null
    /\ overlapped = FALSE

\* fetchHackatime without setHackatimeData(null): stale data stays while the
\* new range loads.
fetchHackatime_KeepsData(range) ==
    /\ loadingHackatime' = TRUE
    /\ errorHackatime' = FALSE
    /\ UNCHANGED hackatimeData
    /\ hackatimeFetches' =
           Append(hackatimeFetches, [range |-> range, status |-> "pending"])
    /\ overlapped' = (overlapped \/ PendingHackatime # {})

\* fetchHackatime(range): reset the cell to Loading and issue the request.
fetchHackatime(range) ==
    /\ loadingHackatime' = TRUE
    /\ errorHackatime' = FALSE
    /\ hackatimeData' = Null
    /\ hackatimeFetches' =
           Append(hackatimeFetches, [range |-> range, status |-> "pending"])
    /\ overlapped' = (overlapped \/ PendingHackatime # {})

\* The GitHub effect body: issue the calendar request.
fetchGithub ==
    githubFetches' = Append(githubFetches, "pending")

\* First commit: both effects run once.
Mount ==
    /\ ~mounted
    /\ mounted' = TRUE
    /\ fetchGithub
    /\ fetchHackatime(activeRange)
    /\ UNCHANGED <<githubData, loadingGithub, errorGithub, activeRange, tooltip,
                   selections, differing, lastGithub, lastHackatime>>
    /\ UNCHANGED <<adapterVars, pureVars>>

\* .then(d => ...) / .catch(() => ...) of the GitHub fetch chain.
githubSettle(outcome, d) ==
    IF outcome = "ok"
    THEN /\ githubData' = <<d>>
         /\ loadingGithub' = FALSE
         /\ UNCHANGED errorGithub
    ELSE /\ errorGithub' = TRUE
         /\ loadingGithub' = FALSE
         /\ UNCHANGED githubData

ResolveGithub(i, outcome, d) ==
    /\ i \in PendingGithub
    /\ githubFetches' = [githubFetches EXCEPT ![i] = "settled"]
    /\ githubSettle(outcome, d)
    /\ lastGithub' = <<Settled(i, outcome, d)>>
    /\ UNCHANGED <<hackatimeData, loadingHackatime, errorHackatime, activeRange,
                   tooltip, mounted, hackatimeFetches, selections, differing,
                   lastHackatime, overlapped>>
    /\ UNCHANGED <<adapterVars, pureVars>>

\* .then(d => ...) / .catch(() => ...) of one Hackatime fetch chain.
hackatimeSettle(outcome, d) ==
    IF outcome = "ok"
    THEN /\ hackatimeData' = <<d>>
         /\ loadingHackatime' = FALSE
         /\ UNCHANGED errorHackatime
    ELSE /\ errorHackatime' = TRUE
         /\ loadingHackatime' = FALSE
         /\ UNCHANGED hackatimeData

ResolveHackatime(i, outcome, d) ==
    /\ i \in PendingHackatime
    /\ hackatimeFetches' = [hackatimeFetches EXCEPT ![i].status = "settled"]
    /\ hackatimeSettle(outcome, d)
    /\ lastHackatime' = <<Settled(i, outcome, d)>>
    /\ UNCHANGED <<githubData, loadingGithub, errorGithub, activeRange, tooltip,
                   mounted, githubFetches, selections, differing, lastGithub,
                   overlapped>>
    /\ UNCHANGED <<adapterVars, pureVars>>

\* The GitHub effect has the dependency list []: a re-render after a state
\* update does not run it again.
githubEffectOnUpdate_Refetch ==
    /\ fetchGithub
    /\ UNCHANGED <<githubData, loadingGithub, errorGithub>>

githubEffectOnUpdate ==
    UNCHANGED <<githubFetches, githubData, loadingGithub, errorGithub>>

\* handleRangeChange(range), with the [activeRange, fetchHackatime] effect that
\* the re-render runs when activeRange changed.
handleRangeChange_NoGuard(range) ==
    /\ activeRange' = range
    /\ fetchHackatime(range)

handleRangeChange(range) ==
    IF range = activeRange
    THEN UNCHANGED <<activeRange, loadingHackatime, errorHackatime,
                     hackatimeData, hackatimeFetches, overlapped>>
    ELSE /\ activeRange' = range
         /\ fetchHackatime(range)

RangeChange(range) ==
    /\ mounted
    /\ selections < MaxSelections
    /\ handleRangeChange(range)
    /\ githubEffectOnUpdate
    /\ selections' = selections + 1
    /\ differing' = differing + (IF range # activeRange THEN 1 ELSE 0)
    /\ UNCHANGED <<tooltip, mounted, lastGithub, lastHackatime>>
    /\ UNCHANGED <<adapterVars, pureVars>>

\* The grid (and so its cells) is rendered only for a loaded calendar.
GridShown == ~loadingGithub /\ ~errorGithub /\ githubData # Null

Cells ==
    IF githubData = Null THEN {}
    ELSE LET weeks == githubData[1].weeks
         IN UNION { {<<w, d>> : d \in DOMAIN weeks[w]} : w \in DOMAIN weeks }

\* handleCellHover(day, e): the tooltip text is built from the day's count
\* (pluralised) and date; the position comes from the hovered cell.
handleCellHover(cell) ==
    LET day == githubData[1].weeks[cell[1]][cell[2]]
    IN tooltip' = << [count |-> day.contributionCount,
                      plural |-> (day.contributionCount # 1),
                      date |-> day.date,
                      at |-> cell] >>

CellHover(cell) ==
    /\ GridShown
    /\ cell \in Cells
    /\ handleCellHover(cell)
    /\ UNCHANGED <<githubData, hackatimeData, loadingGithub, loadingHackatime,
                   errorGithub, errorHackatime, activeRange, mounted,
                   githubFetches, hackatimeFetches, selections, differing,
                   lastGithub, lastHackatime, overlapped>>
    /\ UNCHANGED <<adapterVars, pureVars>>

\* handleCellLeave()
CellLeave ==
    /\ GridShown
    /\ tooltip # Null
    /\ tooltip' = Null
    /\ UNCHANGED <<githubData, hackatimeData, loadingGithub, loadingHackatime,
                   errorGithub, errorHackatime, activeRange, mounted,
                   githubFetches, hackatimeFetches, selections, differing,
                   lastGithub, lastHackatime, overlapped>>
    /\ UNCHANGED <<adapterVars, pureVars>>

\* ---------------------------------------------------------- route handlers

\* An environment variable is unset, set to the empty string, or set.
EnvValues == {"unset", "empty", "value"}
\* !process.env.X
Missing(v) == v \in {"unset", "empty"}

\* JSON values as the handlers see them after response.json().
JNull == [t |-> "null"]
JUndefined == [t |-> "undefined"]
JThrown == [t |-> "thrown"]
JNum(n) == [t |-> "num", v |-> n]
JStr(str) == [t |-> "str", v |-> str]
JArr(items) == [t |-> "arr", items |-> items]
JObj(fields) == [t |-> "obj", f |-> fields]

\* JavaScript truthiness of a JSON value.
Truthy(j) ==
    CASE j.t \in {"obj", "arr"} -> TRUE
      [] j.t = "num" -> j.v # 0
      [] j.t = "str" -> j.v # ""
      [] OTHER -> FALSE

\* j.k: a TypeError on null and undefined (and once thrown, still thrown),
\* undefined for a field that is not there.
Get(j, k) ==
    CASE j.t \in {"null", "undefined", "thrown"} -> JThrown
      [] j.t = "obj" -> IF k \in DOMAIN j.f THEN j.f[k] ELSE JUndefined
      [] OTHER -> JUndefined

\* NextResponse.json(body, {status}); undefined is not JSON-serializable.
Response(status, body) == [status |-> status, body |-> body]
ErrorBody(msg) == JObj([error |-> JStr(msg)])

\* What one upstream fetch can produce: a rejected promise, or a response
\* with its ok flag and a body that response.json() parses or rejects.
Upstream(transport, body) == [transport |-> transport, body |-> body]
Unparseable == [t |-> "unparseable"]

CalendarValues ==
    { JObj([totalContributions |-> JNum(n), weeks |-> JArr(<<>>)]) : n \in {0, 7} }

GraphQL(cal) ==
    JObj([data |-> JObj([user |-> JObj([contributionsCollection |->
              JObj([contributionCalendar |-> cal])])])])

GithubErrorBodies ==
    { JObj([errors |-> JArr(<<JObj([message |-> JStr("Bad credentials")])>>)]),
      JObj([errors |-> JArr(<<>>)]),
      JObj([data |-> JNull,
            errors |-> JArr(<<JObj([message |-> JStr("No such user")])>>)]) }

GithubMalformedBodies ==
    { Unparseable,
      JNull,
      JObj([data |-> JNull]),
      JObj([data |-> JObj([user |-> JNull])]),
      JObj([data |-> JObj([user |-> JObj([contributionsCollection |->
                JObj([other |-> JNum(1)])])])]) }

GithubBodies ==
    {GraphQL(c) : c \in CalendarValues} \cup GithubErrorBodies
        \cup GithubMalformedBodies

GithubUpstreams ==
    {Upstream("rejected", Unparseable)}
        \cup {Upstream(t, b) : t \in {"ok", "notOk"}, b \in GithubBodies}

StatsValues == { JObj([total_seconds |-> JNum(n)]) : n \in {0, 60} }

HackatimeBodies ==
    StatsValues
        \cup {JObj([data |-> st]) : st \in StatsValues}
        \cup {JObj([data |-> JNull, total_seconds |-> JNum(5)]), JNull, Unparseable}

HackatimeUpstreams ==
    {Upstream("rejected", Unparseable)}
        \cup {Upstream(t, b) : t \in {"ok", "notOk"}, b \in HackatimeBodies}

\* request.url's range parameter: absent (null), or a string.
RangeParams ==
    {Null} \cup {<<r>> : r \in RANGE_OPTIONS \cup {"all_time", "", "yesterday"}}

InitAdapters ==
    /\ env \in [{"GITHUB_TOKEN", "HACKATIME_USERNAME", "HACKATIME_API_KEY"}
                    -> EnvValues]
    /\ ghPc = "idle" /\ ghCalls = 0 /\ ghUpstream = Null /\ ghResponses = <<>>
    /\ htPc = "idle" /\ htCalls = 0 /\ htRequest = Null /\ htUpstream = Null
    /\ htResponses = <<>>

\* --- /api/github GET ---

\* The body of the try block after the fetch has settled; "thrown" stands for
\* any exception, which the catch turns into the generic 500.
githubTry_NoOkCheck(up) ==
    IF up.transport = "rejected" \/ up.body = Unparseable
    THEN JThrown
    ELSE IF Get(up.body, "errors").t = "thrown" \/ Truthy(Get(up.body, "errors"))
    THEN JThrown
    ELSE LET calendar ==
                 Get(Get(Get(Get(up.body, "data"), "user"),
                         "contributionsCollection"), "contributionCalendar")
         IN IF calendar.t \in {"thrown", "undefined"} THEN JThrown ELSE calendar

githubTry(up) ==
    IF up.transport = "rejected" THEN JThrown
    ELSE IF up.transport = "notOk" THEN JThrown
    ELSE IF up.body = Unparseable THEN JThrown
    ELSE IF Get(up.body, "errors").t = "thrown" THEN JThrown
    ELSE IF Truthy(Get(up.body, "errors"))
         THEN JThrown   \* throw new Error(data.errors[0].message), or a TypeError
    ELSE LET calendar ==
                 Get(Get(Get(Get(up.body, "data"), "user"),
                         "contributionsCollection"), "contributionCalendar")
         IN IF calendar.t \in {"thrown", "undefined"} THEN JThrown ELSE calendar

githubRespond(up) ==
    LET r == githubTry(up)
    IN IF r = JThrown
       THEN Response(500, ErrorBody("Failed to fetch GitHub data"))
       ELSE Response(200, r)

\* GET is entered: the token check, then the upstream fetch is issued.
githubEnter_NoTokenCheck ==
    /\ ghPc' = "awaiting"
    /\ ghCalls' = 1
    /\ ghResponses' = <<>>

githubEnter ==
    IF Missing(env.GITHUB_TOKEN)
    THEN /\ ghPc' = "done"
         /\ ghCalls' = 0
         /\ ghResponses' = <<Response(500, ErrorBody("GitHub token not configured"))>>
    ELSE /\ ghPc' = "awaiting"
         /\ ghCalls' = 1
         /\ ghResponses' = <<>>

GithubGET ==
    /\ ghPc \in {"idle", "done"}
    /\ githubEnter
    /\ ghUpstream' = Null
    /\ UNCHANGED <<env, htPc, htCalls, htRequest, htUpstream, htResponses>>
    /\ UNCHANGED <<compVars, pureVars>>

GithubUpstreamSettles(up) ==
    /\ ghPc = "awaiting"
    /\ ghUpstream' = <<up>>
    /\ ghResponses' = Append(ghResponses, githubRespond(up))
    /\ ghPc' = "done"
    /\ UNCHANGED <<env, ghCalls, htPc, htCalls, htRequest, htUpstream, htResponses>>
    /\ UNCHANGED <<compVars, pureVars>>

\* --- /api/hackatime GET ---

\* --- Date arithmetic of getDateRange ---
\* A Date is its time value, here in whole hours since 1970-01-01T00:00Z; the
\* local-time methods see it shifted by the process's UTC offset tz (hours).

\* Day number of a civil date (proleptic Gregorian, month 1..12).
DaysFromCivil(y, m, d) ==
    LET yy == IF m <= 2 THEN y - 1 ELSE y
        era == yy \div 400
        yoe == yy - era * 400
        mp == IF m > 2 THEN m - 3 ELSE m + 9
        doy == (153 * mp + 2) \div 5 + d - 1
        doe == yoe * 365 + yoe \div 4 - yoe \div 100 + doy
    IN era * 146097 + doe - 719468

\* The civil date of a day number.
CivilFromDays(days) ==
    LET z == days + 719468
        era == z \div 146097
        doe == z - era * 146097
        yoe == (doe - doe \div 1460 + doe \div 36524 - doe \div 146096) \div 365
        doy == doe - (365 * yoe + yoe \div 4 - yoe \div 100)
        mp == (5 * doy + 2) \div 153
        d == doy - (153 * mp + 2) \div 5 + 1
        m == IF mp < 10 THEN mp + 3 ELSE mp - 9
    IN Date(IF m <= 2 THEN yoe + era * 400 + 1 ELSE yoe + era * 400, m, d)

\* MakeDay(year, month, date) of ECMAScript: month is zero-based and may lie
\* outside 0..11, date may lie outside the month; both carry over.
MakeDay(year, month, date) ==
    DaysFromCivil(year + month \div 12, (month % 12) + 1, 1) + date - 1

LocalDay(t, tz) == (t + tz) \div 24
LocalHour(t, tz) == (t + tz) % 24
LocalDate(t, tz) == CivilFromDays(LocalDay(t, tz))

\* The time value with the local day replaced and the local time of day kept.
AtLocalDay(t, tz, day) == day * 24 + LocalHour(t, tz) - tz

getDate(t, tz) == LocalDate(t, tz).day
getMonthOf(t, tz) == LocalDate(t, tz).month - 1   \* getMonth(), zero-based
getFullYear(t, tz) == LocalDate(t, tz).year

setDate(t, tz, date) ==
    LET c == LocalDate(t, tz)
    IN AtLocalDay(t, tz, MakeDay(c.year, c.month - 1, date))

setMonth(t, tz, month) ==
    LET c == LocalDate(t, tz)
    IN AtLocalDay(t, tz, MakeDay(c.year, month, c.day))

setFullYear(t, tz, year) ==
    LET c == LocalDate(t, tz)
    IN AtLocalDay(t, tz, MakeDay(year, c.month - 1, c.day))

\* d.toISOString().split("T")[0]: the UTC calendar date, YYYY-MM-DD.
fmt(t) == CivilFromDays(t \div 24)

\* getDateRange(range). clock holds what the two new Date() calls read (end
\* first, then start) and the UTC offset of the process.
getDateRange(range, clock) ==
    LET end == clock.end
        tz == clock.tz
        start ==
            CASE range = "last_7_days" ->
                     setDate(clock.start, tz, getDate(end, tz) - 7)
              [] range = "last_30_days" ->
                     setDate(clock.start, tz, getDate(end, tz) - 30)
              [] range = "last_6_months" ->
                     setMonth(clock.start, tz, getMonthOf(end, tz) - 6)
              [] range = "last_year" ->
                     setFullYear(clock.start, tz, getFullYear(end, tz) - 1)
              [] OTHER ->
                     setFullYear(clock.start, tz, getFullYear(end, tz) - 10)
    IN [start_date |-> fmt(start), end_date |-> fmt(end)]

\* The time value of a UTC date and hour.
TimeValue(date, hour) == DaysFromCivil(date.year, date.month, date.day) * 24 + hour

\* Clock readings: the first read at the given UTC date and hour, the second
\* in the same hour or, the clock having moved on, in the next one.
ClocksAt(dates, hours, offsets) ==
    { [end |-> TimeValue(d, h), start |-> TimeValue(d, h) + tick, tz |-> tz] :
          d \in dates, h \in hours, tick \in {0, 1}, tz \in offsets }

\* searchParams.get("range") || "all_time"
rangeOf(param) == IF param = Null \/ param[1] = "" THEN "all_time" ELSE param[1]

hackatimeTry(up) ==
    IF up.transport = "rejected" THEN JThrown
    ELSE IF up.transport = "notOk" THEN JThrown
    ELSE IF up.body = Unparseable THEN JThrown
    ELSE LET data == Get(up.body, "data")
         IN IF data.t = "thrown" THEN JThrown
            ELSE IF Truthy(data) THEN data ELSE up.body

hackatimeRespond(up) ==
    LET r == hackatimeTry(up)
    IN IF r = JThrown
       THEN Response(500, ErrorBody("Failed to fetch Hackatime data"))
       ELSE Response(200, r)

hackatimeEnter(param, clock) ==
    IF Missing(env.HACKATIME_USERNAME)
    THEN /\ htPc' = "done"
         /\ htCalls' = 0
         /\ htRequest' = Null
         /\ htResponses' =
                <<Response(500, ErrorBody("Hackatime username not configured"))>>
    ELSE /\ htPc' = "awaiting"
         /\ htCalls' = 1
         /\ htRequest' =
                << [range |-> rangeOf(param),
                    start_date |-> getDateRange(rangeOf(param), clock).start_date,
                    end_date |-> getDateRange(rangeOf(param), clock).end_date,
                    auth |-> ~Missing(env.HACKATIME_API_KEY)] >>
         /\ htResponses' = <<>>

\* The clock readings handed to the route handler.
AdapterClocks == ClocksAt({Date(2024, 1, 31), Date(2024, 6, 15)}, {23}, {0})

HackatimeGET(param, clock) ==
    /\ htPc \in {"idle", "done"}
    /\ hackatimeEnter(param, clock)
    /\ htUpstream' = Null
    /\ UNCHANGED <<env, ghPc, ghCalls, ghUpstream, ghResponses>>
    /\ UNCHANGED <<compVars, pureVars>>

HackatimeUpstreamSettles(up) ==
    /\ htPc = "awaiting"
    /\ htUpstream' = <<up>>
    /\ htResponses' = Append(htResponses, hackatimeRespond(up))
    /\ htPc' = "done"
    /\ UNCHANGED <<env, ghPc, ghCalls, ghUpstream, ghResponses, htCalls, htRequest>>
    /\ UNCHANGED <<compVars, pureVars>>

\* ------------------------------------------------------ derivation helpers

Max(a, b) == IF a >= b THEN a ELSE b

SeqsUpTo(S, n) == UNION { [1..k -> S] : k \in 0..n }

\* seq.slice(from, to): the elements at zero-based indices from..to-1.
Slice(seq, from, to) ==
    LET end == IF to < Len(seq) THEN to ELSE Len(seq)
    IN [i \in 1..(end - from) |-> seq[from + i]]

\* getGitHubLevel(count)
getGitHubLevel_StrictThresholds(count) ==
    IF count = 0 THEN 0
    ELSE IF count < 3 THEN 1
    ELSE IF count < 6 THEN 2
    ELSE IF count < 9 THEN 3
    ELSE 4

getGitHubLevel(count) ==
    IF count = 0 THEN 0
    ELSE IF count <= 3 THEN 1
    ELSE IF count <= 6 THEN 2
    ELSE IF count <= 9 THEN 3
    ELSE 4

\* weeks.flatMap((w) => w.contributionDays)
RECURSIVE flatMapDays(_)
flatMapDays(weeks) ==
    IF weeks = <<>> THEN <<>> ELSE Head(weeks) \o flatMapDays(Tail(weeks))

\* The forward loop: tempStreak and longestStreak after days i..Len(days).
RECURSIVE longestLoop(_, _, _, _)
longestLoop(days, i, tempStreak, longestStreak) ==
    IF i > Len(days) THEN longestStreak
    ELSE IF days[i].contributionCount > 0
         THEN longestLoop(days, i + 1, tempStreak + 1,
                          Max(longestStreak, tempStreak + 1))
         ELSE longestLoop(days, i + 1, 0, longestStreak)

\* The same loop with the reset of tempStreak left out.
RECURSIVE longestLoop_NoReset(_, _, _, _)
longestLoop_NoReset(days, i, tempStreak, longestStreak) ==
    IF i > Len(days) THEN longestStreak
    ELSE IF days[i].contributionCount > 0
         THEN longestLoop_NoReset(days, i + 1, tempStreak + 1,
                                  Max(longestStreak, tempStreak + 1))
         ELSE longestLoop_NoReset(days, i + 1, tempStreak, longestStreak)

\* The backward loop, from the last day, breaking at the first zero-count day.
RECURSIVE currentLoop(_, _, _)
currentLoop(days, i, currentStreak) ==
    IF i < 1 THEN currentStreak
    ELSE IF days[i].contributionCount > 0
         THEN currentLoop(days, i - 1, currentStreak + 1)
         ELSE currentStreak

\* computeGitHubStreaks(weeks)
computeGitHubStreaks_NoReset(weeks) ==
    LET allDays == flatMapDays(weeks)
    IN [currentStreak |-> currentLoop(allDays, Len(allDays), 0),
        longestStreak |-> longestLoop_NoReset(allDays, 1, 0, 0)]

computeGitHubStreaks(weeks) ==
    LET allDays == flatMapDays(weeks)
    IN [currentStreak |-> currentLoop(allDays, Len(allDays), 0),
        longestStreak |-> longestLoop(allDays, 1, 0, 0)]

MONTH_LABELS ==
    <<"Jan", "Feb", "Mar", "Apr", "May", "Jun",
      "Jul", "Aug", "Sep", "Oct", "Nov", "Dec">>

\* new Date(date + "T00:00:00").getMonth(): the zero-based month.
getMonth(date) == date.month - 1

\* The forEach of getMonthLabels from week column i (zero-based) on.
RECURSIVE monthLabelsLoop(_, _, _, _)
monthLabelsLoop(weeks, i, lastMonth, labels) ==
    IF i >= Len(weeks) THEN labels
    ELSE LET week == weeks[i + 1]
         IN IF week = <<>>
            THEN monthLabelsLoop(weeks, i + 1, lastMonth, labels)
            ELSE LET month == getMonth(week[1].date)
                 IN IF month # lastMonth
                    THEN monthLabelsLoop(weeks, i + 1, month,
                             Append(labels, [label |-> MONTH_LABELS[month + 1],
                                             col |-> i]))
                    ELSE monthLabelsLoop(weeks, i + 1, lastMonth, labels)

\* The same loop with the update of lastMonth left out.
RECURSIVE monthLabelsLoop_NoUpdate(_, _, _, _)
monthLabelsLoop_NoUpdate(weeks, i, lastMonth, labels) ==
    IF i >= Len(weeks) THEN labels
    ELSE LET week == weeks[i + 1]
         IN IF week = <<>>
            THEN monthLabelsLoop_NoUpdate(weeks, i + 1, lastMonth, labels)
            ELSE LET month == getMonth(week[1].date)
                 IN IF month # lastMonth
                    THEN monthLabelsLoop_NoUpdate(weeks, i + 1, lastMonth,
                             Append(labels, [label |-> MONTH_LABELS[month + 1],
                                             col |-> i]))
                    ELSE monthLabelsLoop_NoUpdate(weeks, i + 1, lastMonth, labels)

\* getMonthLabels(weeks)
getMonthLabels_NoUpdate(weeks) == monthLabelsLoop_NoUpdate(weeks, 0, -1, <<>>)

getMonthLabels(weeks) == monthLabelsLoop(weeks, 0, -1, <<>>)

\* The span of each rendered label, in week columns (the width is span * 14 px).
monthLabelSpans(monthLabels, weeks) ==
    [i \in DOMAIN monthLabels |->
        (IF i < Len(monthLabels) THEN monthLabels[i + 1].col ELSE Len(weeks))
            - monthLabels[i].col]

\* .slice(0, 6)
TopLanguageCount == 6

\* The filter with the duration test left out.
RECURSIVE filterLanguages_KeepsZeroDuration(_)
filterLanguages_KeepsZeroDuration(languages) ==
    IF languages = <<>> THEN <<>>
    ELSE LET l == Head(languages)
         IN IF l.name # "Other"
            THEN <<l>> \o filterLanguages_KeepsZeroDuration(Tail(languages))
            ELSE filterLanguages_KeepsZeroDuration(Tail(languages))

RECURSIVE filterLanguages(_)
filterLanguages(languages) ==
    IF languages = <<>> THEN <<>>
    ELSE LET l == Head(languages)
         IN IF l.name # "Other" /\ l.total_seconds > 0
            THEN <<l>> \o filterLanguages(Tail(languages))
            ELSE filterLanguages(Tail(languages))

\* hackatimeData?.languages?.filter(...).slice(0, 6) ?? []
topLanguages(data) ==
    IF data = Null THEN <<>>
    ELSE IF "languages" \notin DOMAIN data[1] THEN <<>>
    ELSE LET kept == filterLanguages(data[1].languages)
         IN Slice(kept, 0, TopLanguageCount)

maxLangPercent(top) == IF Len(top) > 0 THEN top[1].percent ELSE 1

\* (lang.percent / maxLangPercent) * 100, kept as an exact quotient; a zero
\* denominator gives NaN (0/0) or Infinity.
barWidth(lang, maxPercent) == [num |-> lang.percent * 100, den |-> maxPercent]

barWidths(data) ==
    LET top == topLanguages(data)
    IN [i \in DOMAIN top |-> barWidth(top[i], maxLangPercent(top))]

\* --- inputs of the helpers ---

SomeDate == Date(2024, 1, 1)

\* The day counts [1,0,2,3,0,0,5] of one week.
ExampleStreakWeeks ==
    << <<Day(1, SomeDate), Day(0, SomeDate), Day(2, SomeDate), Day(3, SomeDate),
         Day(0, SomeDate), Day(0, SomeDate), Day(5, SomeDate)>> >>

\* Day sequences of up to MaxDays days, cut into two weeks at every place.
StreakInputs ==
    {ExampleStreakWeeks} \cup
    UNION { { <<Slice(days, 0, k), Slice(days, k, Len(days))>> : k \in 0..Len(days) } :
              days \in SeqsUpTo({Day(c, SomeDate) : c \in 0..MaxDayCount}, MaxDays) }

\* A week with no day, a week starting on the 1st of a month, and a week
\* that starts in January and ends in February.
LabelWeeks ==
    {<<>>} \cup { <<Day(0, Date(2024, m, 1))>> : m \in 1..MaxMonth }
           \cup { <<Day(0, Date(2024, 1, 31)), Day(0, Date(2024, 2, 1))>> }

\* Five weeks whose first days fall in Jan, Jan, Feb, Feb, Mar.
ExampleLabelWeeks ==
    << <<Day(0, Date(2024, 1, 14))>>, <<Day(0, Date(2024, 1, 21))>>,
       <<Day(0, Date(2024, 2, 4))>>, <<Day(0, Date(2024, 2, 11))>>,
       <<Day(0, Date(2024, 3, 3))>> >>

LabelInputs == {ExampleLabelWeeks} \cup SeqsUpTo(LabelWeeks, MaxWeeks)

LangEntries ==
    { Lang("Go", 500, 50), Lang("Rust", 300, 30), Lang("TS", 200, 20),
      Lang("Other", 100, 10), Lang("C", 0, 0), Lang("Zig", 1, 0) }

ExampleLanguages ==
    <<Lang("Other", 100, 10), Lang("Go", 500, 50), Lang("Rust", 300, 30),
      Lang("TS", 200, 20)>>

\* Ten entries, eight of them neither "Other" nor of zero duration.
LongLanguages ==
    <<Lang("Go", 500, 25), Lang("Other", 400, 20), Lang("Rust", 300, 15),
      Lang("C", 0, 0), Lang("TS", 200, 10), Lang("Zig", 160, 8),
      Lang("Lua", 140, 7), Lang("Nix", 120, 6), Lang("Awk", 100, 5),
      Lang("Sed", 80, 4)>>

LanguageInputs ==
    {Null, <<[total_seconds |-> 0]>>} \cup
    { <<[total_seconds |-> 0, languages |-> ls]>> :
          ls \in {ExampleLanguages, LongLanguages}
                     \cup SeqsUpTo(LangEntries, MaxLangs) }

\* UTC dates, hours and UTC offsets of the clock readings given to
\* getDateRange: month and year ends, a leap day, days early in a month.
ClockDates ==
    { Date(2024, 1, 1), Date(2024, 1, 5), Date(2024, 1, 31), Date(2024, 2, 29),
      Date(2024, 3, 1), Date(2024, 3, 31), Date(2024, 8, 31), Date(2024, 12, 31),
      Date(2025, 3, 30) }

DateRangeInputs ==
    { [param |-> param, clock |-> clock] :
          param \in RangeParams,
          clock \in ClocksAt(ClockDates, {0, 12, 23}, {-8, 0, 9}) }

InitHelpers ==
    /\ output = Null
    /\ \/ op = "level" /\ input \in 0..MaxCount
       \/ op = "streaks" /\ input \in StreakInputs
       \/ op = "labels" /\ input \in LabelInputs
       \/ op = "bars" /\ input \in LanguageInputs
       \/ op = "dateRange" /\ input \in DateRangeInputs

ApplyLevel ==
    /\ op = "level" /\ output = Null
    /\ output' = <<getGitHubLevel(input)>>
    /\ UNCHANGED <<op, input, compVars, adapterVars>>

ApplyStreaks ==
    /\ op = "streaks" /\ output = Null
    /\ output' = <<computeGitHubStreaks(input)>>
    /\ UNCHANGED <<op, input, compVars, adapterVars>>

ApplyLabels ==
    /\ op = "labels" /\ output = Null
    /\ output' = << [labels |-> getMonthLabels(input),
                     spans |-> monthLabelSpans(getMonthLabels(input), input)] >>
    /\ UNCHANGED <<op, input, compVars, adapterVars>>

ApplyBars ==
    /\ op = "bars" /\ output = Null
    /\ output' = << [top |-> topLanguages(input), widths |-> barWidths(input)] >>
    /\ UNCHANGED <<op, input, compVars, adapterVars>>

\* GET of /api/hackatime up to the date range: the range parameter with its
\* default, then getDateRange.
ApplyDateRange ==
    /\ op = "dateRange" /\ output = Null
    /\ output' = <<getDateRange(rangeOf(input.param), input.clock)>>
    /\ UNCHANGED <<op, input, compVars, adapterVars>>

\* ------------------------------------------------------- specifications

\* Route handlers not invoked / no helper under test.
AdaptersIdle ==
    /\ env = [GITHUB_TOKEN |-> "value", HACKATIME_USERNAME |-> "value",
              HACKATIME_API_KEY |-> "value"]
    /\ ghPc = "idle" /\ ghCalls = 0 /\ ghUpstream = Null /\ ghResponses = <<>>
    /\ htPc = "idle" /\ htCalls = 0 /\ htRequest = Null /\ htUpstream = Null
    /\ htResponses = <<>>

HelpersIdle ==
    /\ op = "none" /\ input = Null /\ output = Null

Init == InitComponent /\ AdaptersIdle /\ HelpersIdle

Next ==
    \/ Mount
    \/ \E i \in DOMAIN githubFetches, o \in FetchOutcomes, d \in GitHubPayloads :
           ResolveGithub(i, o, d)
    \/ \E i \in DOMAIN hackatimeFetches, o \in FetchOutcomes, d \in HackatimePayloads :
           ResolveHackatime(i, o, d)
    \/ \E r \in RANGE_OPTIONS : RangeChange(r)
    \/ \E c \in Cells : CellHover(c)
    \/ CellLeave

Spec == Init /\ [][Next]_vars

\* The two route handlers, under every environment.
InitAdapter == InitComponent /\ InitAdapters /\ HelpersIdle

NextAdapter ==
    \/ GithubGET
    \/ \E up \in GithubUpstreams : GithubUpstreamSettles(up)
    \/ \E param \in RangeParams, clock \in AdapterClocks : HackatimeGET(param, clock)
    \/ \E up \in HackatimeUpstreams : HackatimeUpstreamSettles(up)

SpecAdapter == InitAdapter /\ [][NextAdapter]_vars

\* The derivation helpers, each applied to every input within the bounds.
InitHelper == InitComponent /\ AdaptersIdle /\ InitHelpers

NextHelper ==
    \/ ApplyLevel
    \/ ApplyStreaks
    \/ ApplyLabels
    \/ ApplyBars
    \/ ApplyDateRange

SpecHelper == InitHelper /\ [][NextHelper]_vars

\* ----------------------------------------------------------- properties

\* The three-state machine of one data source, read off its state cells.
CellState(loading, error, data) ==
    IF loading THEN "Loading"
    ELSE IF error /\ data = Null THEN "Failed"
    ELSE IF ~error /\ data # Null THEN "Loaded"
    ELSE "Neither"

GithubState == CellState(loadingGithub, errorGithub, githubData)
HackatimeState == CellState(loadingHackatime, errorHackatime, hackatimeData)

HackatimeStarted == Len(hackatimeFetches') > Len(hackatimeFetches)
GithubStarted == Len(githubFetches') > Len(githubFetches)
HackatimeResolved == ~HackatimeStarted /\ PendingHackatime' # PendingHackatime
GithubResolved == ~GithubStarted /\ PendingGithub' # PendingGithub

EndState(settled) == IF settled[1].outcome = "ok" THEN "Loaded" ELSE "Failed"

\* C1: each source is Loading initially and after every fetch-cycle start;
\* each resolution of a fetch leaves the source in exactly one of Loaded
\* (successful response) or Failed (otherwise); and a source that is Loaded or
\* Failed keeps its loading flag, error flag and data until a new fetch cycle
\* for that source starts.
C1_FetchCycleStateMachine ==
    /\ GithubState = "Loading" /\ HackatimeState = "Loading"
    /\ [][ /\ GithubStarted => GithubState' = "Loading"
           /\ HackatimeStarted => HackatimeState' = "Loading"
           /\ GithubResolved => GithubState' = EndState(lastGithub')
           /\ HackatimeResolved => HackatimeState' = EndState(lastHackatime')
           /\ (GithubState \in {"Loaded", "Failed"} /\ ~GithubStarted)
                  => UNCHANGED <<loadingGithub, errorGithub, githubData>>
           /\ (HackatimeState \in {"Loaded", "Failed"} /\ ~HackatimeStarted)
                  => UNCHANGED <<loadingHackatime, errorHackatime, hackatimeData>>
         ]_vars

\* The state a single resolution stands for: Loaded with its data, or Failed.
WrittenBy(settled) ==
    IF settled.outcome = "ok"
    THEN <<FALSE, FALSE, settled.data>>
    ELSE <<FALSE, TRUE, Null>>

\* C2: when time-tracking fetches overlapped and all of them have resolved, the
\* time-tracking state (loading flag, error flag, data) is exactly the state
\* written by the fetch that resolved last.
C2_LastResolverWins ==
    (overlapped /\ PendingHackatime = {})
        => <<loadingHackatime, errorHackatime, hackatimeData>>
               = WrittenBy(lastHackatime[1])

\* C3: selecting the active range changes no state and starts no fetch, and
\* the number of time-tracking fetches issued is 1 (mount) plus the number of
\* selections whose range differed from the active range when selected.
C3_RangeChangeIdempotent ==
    /\ [](Len(hackatimeFetches) = (IF mounted THEN 1 + differing ELSE 0))
    /\ [][ (selections' = selections + 1 /\ differing' = differing)
               => UNCHANGED <<githubData, hackatimeData, loadingGithub,
                              loadingHackatime, errorGithub, errorHackatime,
                              activeRange, tooltip, mounted, githubFetches,
                              hackatimeFetches>>
         ]_vars

\* C3 witness: one selection of the active range and one of another range
\* have been made, and two fetches were issued.
C3_Witness ==
    /\ selections = 2 /\ differing = 1
    /\ Len(hackatimeFetches) = 2

\* C6: the calendar is fetched exactly once, and once it is Loaded or Failed
\* its loading flag, error flag and data never change again.
C6_CalendarFetchedOnce ==
    /\ [](Len(githubFetches) = (IF mounted THEN 1 ELSE 0))
    /\ [][ ~loadingGithub
               => UNCHANGED <<githubData, loadingGithub, errorGithub>> ]_vars

\* C6 witness: the calendar failed, and range selections and a time-tracking
\* resolution have happened as well.
C6_Witness ==
    /\ GithubState = "Failed"
    /\ differing >= 1
    /\ lastHackatime # Null /\ lastHackatime[1].id > 1

\* A JSON error object: { error: string }.
IsErrorBody(b) == b.t = "obj" /\ DOMAIN b.f = {"error"} /\ b.f.error.t = "str"

HackatimeConfigError == Response(500, ErrorBody("Hackatime username not configured"))

\* C4: with its required configuration missing (calendar: the token;
\* time-tracking: the username) an invocation returns one response, status 500
\* with a JSON error body, and makes no upstream call; a missing API key alone
\* does not: the upstream call is made, without an Authorization header.
C4_MissingConfiguration ==
    /\ (Missing(env.GITHUB_TOKEN) /\ ghPc # "idle")
           => /\ ghPc = "done" /\ ghCalls = 0 /\ ghUpstream = Null
              /\ Len(ghResponses) = 1
              /\ ghResponses[1].status = 500 /\ IsErrorBody(ghResponses[1].body)
    /\ (Missing(env.HACKATIME_USERNAME) /\ htPc # "idle")
           => /\ htPc = "done" /\ htCalls = 0 /\ htUpstream = Null
              /\ htRequest = Null
              /\ Len(htResponses) = 1
              /\ htResponses[1].status = 500 /\ IsErrorBody(htResponses[1].body)
    /\ (~Missing(env.HACKATIME_USERNAME) /\ Missing(env.HACKATIME_API_KEY)
            /\ htPc # "idle")
           => /\ htCalls = 1
              /\ htRequest # Null /\ ~htRequest[1].auth
              /\ \A i \in DOMAIN htResponses : htResponses[i] # HackatimeConfigError

\* C4 witness: both handlers have returned with their required configuration
\* missing.
C4_Witness ==
    /\ Missing(env.GITHUB_TOKEN) /\ ghPc = "done"
    /\ Missing(env.HACKATIME_USERNAME) /\ htPc = "done"

\* The upstream call succeeded: fulfilled, ok, and a body the handler can
\* parse and take its payload from.
GithubSucceeded(up) ==
    up.transport = "ok" /\ \E c \in CalendarValues : up.body = GraphQL(c)
HackatimeSucceeded(up) ==
    up.transport = "ok" /\ up.body \in HackatimeBodies \ {JNull, Unparseable}

\* The reshaped payloads: the calendar substructure; the data sub-object when
\* the statistics payload has one, else the payload itself.
CalendarOf(body) == CHOOSE c \in CalendarValues : body = GraphQL(c)
StatsOf(body) ==
    IF \E st \in StatsValues : body = JObj([data |-> st])
    THEN CHOOSE st \in StatsValues : body = JObj([data |-> st])
    ELSE body

Applied(which) == op = which /\ output # Null

\* The activity level of the thresholds table.
LevelTable(c) ==
    CASE c = 0 -> 0
      [] c \in 1..3 -> 1
      [] c \in 4..6 -> 2
      [] c \in 7..9 -> 3
      [] c >= 10 -> 4

\* C7: getGitHubLevel maps every non-negative count into {0,1,2,3,4}, is
\* non-decreasing in the count, and maps 0 to 0, 1..3 to 1, 4..6 to 2,
\* 7..9 to 3 and every count >= 10 to 4.
C7_LevelThresholds ==
    Applied("level") =>
        /\ output[1] \in 0..4
        /\ output[1] = LevelTable(input)
        /\ \A c \in 0..input : getGitHubLevel(c) <= output[1]

\* C7 witness: the level of count 10 has been computed and is 4.
C7_Witness == Applied("level") /\ input = 10 /\ output[1] = 4

\* The runs of consecutive positive-count days of a day sequence.
PositiveRuns(days) ==
    { r \in (DOMAIN days) \X (DOMAIN days) :
          r[1] <= r[2] /\ \A k \in r[1]..r[2] : days[k].contributionCount > 0 }

MaxRunLength(days) ==
    IF PositiveRuns(days) = {} THEN 0
    ELSE LET lens == { r[2] - r[1] + 1 : r \in PositiveRuns(days) }
         IN CHOOSE m \in lens : \A l \in lens : l <= m

TrailingRunLength(days) ==
    Cardinality({ i \in DOMAIN days :
                      \A k \in i..Len(days) : days[k].contributionCount > 0 })

\* C8: over the flattened day sequence, longestStreak is the maximum length of
\* a run of consecutive days with count > 0 and currentStreak is the length of
\* the trailing such run; both are 0 when no day has a positive count, and
\* counts [1,0,2,3,0,0,5] give longestStreak = 2 and currentStreak = 1.
C8_Streaks ==
    Applied("streaks") =>
        LET days == flatMapDays(input)
        IN /\ output[1].longestStreak = MaxRunLength(days)
           /\ output[1].currentStreak = TrailingRunLength(days)
           /\ (\A k \in DOMAIN days : days[k].contributionCount = 0)
                  => output[1] = [currentStreak |-> 0, longestStreak |-> 0]
           /\ input = ExampleStreakWeeks
                  => output[1] = [currentStreak |-> 1, longestStreak |-> 2]

\* C8 witness: the streaks of the counts [1,0,2,3,0,0,5] have been computed.
C8_Witness ==
    /\ Applied("streaks") /\ input = ExampleStreakWeeks
    /\ output[1].longestStreak = 2 /\ output[1].currentStreak = 1

RECURSIVE SumSeq(_)
SumSeq(seq) == IF seq = <<>> THEN 0 ELSE Head(seq) + SumSeq(Tail(seq))

\* The week columns (zero-based) that get a label: a week with a day whose
\* first day's month differs from that of the nearest earlier week with a
\* day, or that has no earlier week with a day.
LabelledColumns(weeks) ==
    { i - 1 : i \in { i \in DOMAIN weeks :
          /\ weeks[i] # <<>>
          /\ LET earlier == { j \in 1..(i - 1) : weeks[j] # <<>> }
             IN \/ earlier = {}
                \/ LET prev == CHOOSE j \in earlier : \A e \in earlier : e <= j
                   IN weeks[prev][1].date.month # weeks[i][1].date.month } }

LabelsAgree(weeks, labels) ==
    /\ { labels[k].col : k \in DOMAIN labels } = LabelledColumns(weeks)
    /\ \A k \in DOMAIN labels :
           /\ k < Len(labels) => labels[k].col < labels[k + 1].col
           /\ labels[k].label = MONTH_LABELS[weeks[labels[k].col + 1][1].date.month]

SpansAgree(weeks, labels, spans) ==
    /\ DOMAIN spans = DOMAIN labels
    /\ \A k \in DOMAIN spans :
           /\ spans[k] >= 1
           /\ spans[k] = (IF k < Len(labels) THEN labels[k + 1].col ELSE Len(weeks))
                             - labels[k].col

ExampleLabels ==
    [labels |-> <<[label |-> "Jan", col |-> 0], [label |-> "Feb", col |-> 2],
                  [label |-> "Mar", col |-> 4]>>,
     spans |-> <<2, 2, 1>>]

\* C9 as stated: the first week always gets a label, a later week exactly when
\* its first day's month differs from the previous label's month, and the
\* spans are all >= 1 and together cover every week column.
C9_FirstWeekAlwaysLabelled ==
    (Applied("labels") /\ input # <<>>) =>
        LET labels == output[1].labels
            spans == output[1].spans
        IN /\ Len(labels) > 0
           /\ labels[1].col = 0
           /\ SpansAgree(input, labels, spans)
           /\ SumSeq(spans) = Len(input)

\* C9, amended: the first week that has a day always gets a label, a later
\* week exactly when it has a day and its first day's month differs from the
\* previous label's month; the spans are all >= 1 and together cover every
\* week column from the first label's column on, which is every week column
\* when the first week has a day.
C9_MonthLabels ==
    Applied("labels") =>
        LET labels == output[1].labels
            spans == output[1].spans
        IN /\ LabelsAgree(input, labels)
           /\ SpansAgree(input, labels, spans)
           /\ labels # <<>> => SumSeq(spans) = Len(input) - labels[1].col
           /\ (input # <<>> /\ input[1] # <<>>)
                  => (labels[1].col = 0 /\ SumSeq(spans) = Len(input))
           /\ input = ExampleLabelWeeks => output[1] = ExampleLabels

\* C9 witness: the labels of the Jan, Jan, Feb, Feb, Mar weeks were computed.
C9_Witness ==
    Applied("labels") /\ input = ExampleLabelWeeks /\ output[1] = ExampleLabels

\* A width of exactly 100%, and one above 100% (Infinity included).
IsFullWidth(w) == w.den # 0 /\ w.num = 100 * w.den
ExceedsFullWidth(w) ==
    \/ w.den > 0 /\ w.num > 100 * w.den
    \/ w.den = 0 /\ w.num > 0

MaxPercent(top) ==
    CHOOSE m \in { top[i].percent : i \in DOMAIN top } :
        \A i \in DOMAIN top : top[i].percent <= m

\* C10: each bar's width is the language's percent relative to the maximum
\* percent among the retained languages, so the bar of the highest-percent
\* retained language is exactly 100% wide and no retained bar exceeds 100%.
C10_BarsRelativeToMax ==
    (Applied("bars") /\ output[1].top # <<>>) =>
        LET top == output[1].top
            widths == output[1].widths
        IN \A i \in DOMAIN top :
               /\ widths[i].den # 0
               /\ widths[i].num * MaxPercent(top)
                      = top[i].percent * 100 * widths[i].den
               /\ top[i].percent = MaxPercent(top) => IsFullWidth(widths[i])
               /\ ~ExceedsFullWidth(widths[i])

\* The indices of the entries that are kept: not named "Other", duration
\* not zero.
KeptIndices(languages) ==
    { i \in DOMAIN languages :
          languages[i].name # "Other" /\ languages[i].total_seconds # 0 }

\* The k-th smallest element of a set of indices.
NthIndex(S, k) == CHOOSE i \in S : Cardinality({ j \in S : j < i }) = k - 1

\* C11: the retained languages are the first 6 entries, in the upstream's
\* order, among the entries whose name is not "Other" and whose duration is
\* not zero; no retained entry is "Other" or of zero duration, and there are
\* never more than 6.
C11_TopLanguages ==
    (Applied("bars") /\ input # Null /\ "languages" \in DOMAIN input[1]) =>
        LET languages == input[1].languages
            top == output[1].top
            kept == KeptIndices(languages)
        IN /\ Len(top) = (IF Cardinality(kept) < 6 THEN Cardinality(kept) ELSE 6)
           /\ \A k \in DOMAIN top : top[k] = languages[NthIndex(kept, k)]
           /\ \A k \in DOMAIN top :
                  top[k].name # "Other" /\ top[k].total_seconds # 0
           /\ Len(top) <= 6

\* C11 witness: a list with "Other", a zero-duration entry and eight other
\* entries has been cut to its first six kept entries.
C11_Witness ==
    /\ Applied("bars") /\ input # Null /\ "languages" \in DOMAIN input[1]
    /\ input[1].languages = LongLanguages
    /\ Len(output[1].top) = 6
    /\ output[1].top[6].name = "Nix"

\* Order of two calendar dates (that of their YYYY-MM-DD strings).
DateLeq(a, b) ==
    \/ a.year < b.year
    \/ a.year = b.year /\ a.month < b.month
    \/ a.year = b.year /\ a.month = b.month /\ a.day <= b.day

\* The range parameter is absent, empty, all_time or not a range key.
FallsBack(param) ==
    param = Null \/ param[1] \notin RANGE_OPTIONS

\* Days from one calendar date to another; ten years are 3652 or 3653 days.
DaysBetween(a, b) ==
    DaysFromCivil(b.year, b.month, b.day) - DaysFromCivil(a.year, a.month, a.day)

\* The claim of C12 about one computed date range (ten years before now: to
\* within a day).
DateRangeClaim(param, clock, range) ==
    /\ FallsBack(param) =>
           /\ range = getDateRange("all_time", clock)
           /\ DaysBetween(range.start_date, range.end_date) \in 3651..3654
    /\ DateLeq(range.start_date, range.end_date)
    /\ range.end_date = CivilFromDays(clock.end \div 24)

\* C12: for every range parameter a date range is produced; an absent, empty
\* or unrecognized parameter gives the range of all_time, which starts 10
\* years before now; and for every parameter start_date <= end_date and
\* end_date is the date of now.
C12_DateRange ==
    Applied("dateRange") =>
        DateRangeClaim(input.param, input.clock, output[1])

\* The same when the two new Date() calls read the same time: it holds.
C12_DateRangeOneReading ==
    (Applied("dateRange") /\ input.clock.start = input.clock.end) =>
        DateRangeClaim(input.param, input.clock, output[1])

\* C13: every start of a time-tracking fetch cycle (mount or range change)
\* sets the loading flag, clears the error flag and clears the loaded data;
\* so in every reachable state with the time-tracking loading flag set, no
\* time-tracking data is held.
C13_LoadingHoldsNoData ==
    /\ [][ HackatimeStarted =>
               /\ loadingHackatime'
               /\ ~errorHackatime'
               /\ hackatimeData' = Null ]_vars
    /\ [](loadingHackatime => hackatimeData = Null)

\* C13 witness: a fetch resolved with data, a different range was selected
\* after it, and the cell is loading again with the data cleared.
C13_Witness ==
    /\ loadingHackatime /\ ~errorHackatime /\ hackatimeData = Null
    /\ differing >= 1
    /\ lastHackatime # Null /\ lastHackatime[1].outcome = "ok"

\* The number of the time-tracking cells that are set: loading flag, error
\* flag, data.
HackatimeCellsSet ==
    (IF loadingHackatime THEN 1 ELSE 0)
        + (IF errorHackatime THEN 1 ELSE 0)
        + (IF hackatimeData # Null THEN 1 ELSE 0)

\* C14: in every reachable state at most one of the time-tracking loading
\* flag, error flag and loaded data is set; in particular the error flag and
\* loaded data are never present together.
C14_LoadingErrorDataExclusive ==
    /\ HackatimeCellsSet <= 1
    /\ ~(errorHackatime /\ hackatimeData # Null)

====
